---------------------------- MODULE Spec2Model ----------------------------
(***************************************************************************)
(* A model of RobertsCrossFilter::run                                      *)
(* (whitebox_tools/src/tools/image_analysis/roberts_filter.rs).            *)
(*                                                                         *)
(* run parses its arguments, opens the input raster, cuts the rows into    *)
(* blocks, spawns one thread per block, collects one (row, data) message   *)
(* per row from an mpsc channel into the output raster, optionally clips   *)
(* the output, annotates it and writes it.                                 *)
(*                                                                         *)
(* Cell values are f64 in the source; the model uses integers, on which    *)
(* subtraction, abs and the comparisons of the kernel are exact.           *)
(***************************************************************************)
EXTENDS Integers, Sequences, FiniteSets, TLC

(***************************************************************************)
(* Bounds of the model.                                                    *)
(***************************************************************************)
\* largest number of rows of an input raster
MaxRows == 5
\* largest number of columns of an input raster
MaxCols == 2
\* largest value num_cpus::get() returns
MaxProcs == 2
\* iterations of the dispatch loop that are followed beyond MaxRows, the
\* most a loop that ends can take: id is followed up to MaxRows + MaxSpin,
\* far below isize::MAX, so that id += 1 never overflows here
MaxSpin == 12
\* largest magnitude, in whole seconds, of the elapsed time end - start
MaxElapsed == 5

VARIABLES
    args,           \* the argument vector handed to run
    file,           \* the raster stored at InputPath on disk
    num_procs,      \* what num_cpus::get() returns
    pc,             \* where run is
    result,         \* what run returned: "none", "Ok", "Err"
    input_file, output_file, clip_amount,
    input,          \* the input raster (Arc<Raster>)
    output,         \* the output raster
    row_block_size, ending_row, id,
    workers,        \* the threads spawned on a block that holds a row, in
                    \* spawn order (a thread spawned on an empty block does
                    \* nothing and ends); row is the next row of the thread's
                    \* loop, panicked says that its send met a closed channel
    chan,           \* the mpsc channel: messages sent and not yet received
    row,            \* the collector loop's counter
    stdout,         \* the lines printed whatever verbose is
    written,        \* the raster output.write() stored, or NoRaster
    col, data       \* a worker's inner loop, stepped cell by cell (KernelSpec)

vars == <<args, file, num_procs, pc, result, input_file, output_file,
          clip_amount, input, output, row_block_size, ending_row, id,
          workers, chan, row, stdout, written, col, data>>

(***************************************************************************)
(* Rasters.  data is indexed from 0 as in the source.                      *)
(***************************************************************************)
NoRaster == [rows |-> 0, columns |-> 0, nodata |-> 0, data |-> <<>>,
             palette |-> "none", metadata |-> <<>>, valid |-> FALSE]

MakeRaster(rows, columns, nodata, cells) ==
    [rows |-> rows, columns |-> columns, nodata |-> nodata, data |-> cells,
     palette |-> "none", metadata |-> <<>>, valid |-> TRUE]

\* input[(row, col)]: the cell, or nodata outside the grid
GetValue(r, i, j) ==
    IF i >= 0 /\ i < r.rows /\ j >= 0 /\ j < r.columns
    THEN r.data[i][j]
    ELSE r.nodata

\* Raster::initialize_using_file: same geometry, every cell nodata
InitializeUsingFile(r) ==
    MakeRaster(r.rows, r.columns, r.nodata,
               [i \in 0 .. r.rows - 1 |-> [j \in 0 .. r.columns - 1 |-> r.nodata]])

\* Raster::set_row_data: the values of one row, written in place
SetRowData(r, i, values) ==
    IF i >= 0 /\ i < r.rows
    THEN [r EXCEPT !.data = [r.data EXCEPT ![i] =
             [j \in 0 .. r.columns - 1 |->
                 IF j \in DOMAIN values THEN values[j] ELSE r.data[i][j]]]]
    ELSE r

Abs(x) == IF x < 0 THEN -x ELSE x

\* the kernel without the test of line 207
CellValueNoCenterTest(r, i, j, prev) ==
    LET nodata == r.nodata
        z1 == GetValue(r, i, j)
        z2r == GetValue(r, i, j + 1)
        z2 == IF z2r = nodata THEN z1 ELSE z2r
        z3r == GetValue(r, i + 1, j)
        z3 == IF z3r = nodata THEN z1 ELSE z3r
        z4r == GetValue(r, i + 1, j + 1)
        z4 == IF z4r = nodata THEN z1 ELSE z4r
    IN  Abs(z1 - z4) + Abs(z2 - z3)

\* the kernel without the substitution of line 213
CellValueNoZ4Substitution(r, i, j, prev) ==
    LET nodata == r.nodata
        z1 == GetValue(r, i, j)
        z2r == GetValue(r, i, j + 1)
        z2 == IF z2r = nodata THEN z1 ELSE z2r
        z3r == GetValue(r, i + 1, j)
        z3 == IF z3r = nodata THEN z1 ELSE z3r
        z4 == GetValue(r, i + 1, j + 1)
    IN  IF z1 # nodata
        THEN Abs(z1 - z4) + Abs(z2 - z3)
        ELSE prev

\* the kernel with the differences taken along the rows, not the diagonals
CellValueAlongRows(r, i, j, prev) ==
    LET nodata == r.nodata
        z1 == GetValue(r, i, j)
        z2r == GetValue(r, i, j + 1)
        z2 == IF z2r = nodata THEN z1 ELSE z2r
        z3r == GetValue(r, i + 1, j)
        z3 == IF z3r = nodata THEN z1 ELSE z3r
        z4r == GetValue(r, i + 1, j + 1)
        z4 == IF z4r = nodata THEN z1 ELSE z4r
    IN  IF z1 # nodata
        THEN Abs(z1 - z2) + Abs(z3 - z4)
        ELSE prev

\* the kernel with signed differences, no abs()
CellValueSigned(r, i, j, prev) ==
    LET nodata == r.nodata
        z1 == GetValue(r, i, j)
        z2r == GetValue(r, i, j + 1)
        z2 == IF z2r = nodata THEN z1 ELSE z2r
        z3r == GetValue(r, i + 1, j)
        z3 == IF z3r = nodata THEN z1 ELSE z3r
        z4r == GetValue(r, i + 1, j + 1)
        z4 == IF z4r = nodata THEN z1 ELSE z4r
    IN  IF z1 # nodata
        THEN (z1 - z4) + (z2 - z3)
        ELSE prev

\* the kernel without the substitution of z2 (lines 209-210)
CellValueNoZ2Substitution(r, i, j, prev) ==
    LET nodata == r.nodata
        z1 == GetValue(r, i, j)
        z2 == GetValue(r, i, j + 1)
        z3r == GetValue(r, i + 1, j)
        z3 == IF z3r = nodata THEN z1 ELSE z3r
        z4r == GetValue(r, i + 1, j + 1)
        z4 == IF z4r = nodata THEN z1 ELSE z4r
    IN  IF z1 # nodata
        THEN Abs(z1 - z4) + Abs(z2 - z3)
        ELSE prev

(***************************************************************************)
(* The per-cell kernel of the worker closure (lines 206-216): prev is the  *)
(* value data[col] holds before the cell is computed (nodata, line 204).   *)
(***************************************************************************)
CellValue(r, i, j, prev) ==
    LET nodata == r.nodata
        z1 == GetValue(r, i, j)
        z2r == GetValue(r, i, j + 1)
        z2 == IF z2r = nodata THEN z1 ELSE z2r
        z3r == GetValue(r, i + 1, j)
        z3 == IF z3r = nodata THEN z1 ELSE z3r
        z4r == GetValue(r, i + 1, j + 1)
        z4 == IF z4r = nodata THEN z1 ELSE z4r
    IN  IF z1 # nodata
        THEN Abs(z1 - z4) + Abs(z2 - z3)
        ELSE prev

\* vec![nodata; columns] (line 204)
FreshRow(r) == [j \in 0 .. r.columns - 1 |-> r.nodata]

\* the data vector a worker sends for row i (lines 204-217)
KernelRow(r, i) == [j \in 0 .. r.columns - 1 |-> CellValue(r, i, j, r.nodata)]


(***************************************************************************)
(* Arguments.  An argument is given as run sees it after                   *)
(* arg.split("=") (line 126): key is vec[0], keyval says that vec has more *)
(* than one part, val is vec[1].                                           *)
(***************************************************************************)
Word(k) == [key |-> k, keyval |-> FALSE, val |-> ""]
KeyVal(k, v) == [key |-> k, keyval |-> TRUE, val |-> v]

\* args[i] as a whole string (args[i + 1].to_string(), lines 136, 142, 148)
Text(a) == IF a.keyval THEN a.key \o "=" \o a.val ELSE a.key

\* str::to_lowercase on the keys the model hands to run
ToLowercase(s) ==
    CASE s = "-I" -> "-i"
      [] s = "--INPUT" -> "--input"
      [] s = "-O" -> "-o"
      [] s = "--Clip" -> "--clip"
      [] OTHER -> s

\* str::parse::<f64> on the strings the model hands to run; ok is FALSE
\* where parse returns Err
ParseF64(s) ==
    CASE s = "25" -> [ok |-> TRUE, val |-> 25]
      [] s = "25.0" -> [ok |-> TRUE, val |-> 25]
      [] s = "-10" -> [ok |-> TRUE, val |-> -10]
      [] s = "0" -> [ok |-> TRUE, val |-> 0]
      [] s = "0.0" -> [ok |-> TRUE, val |-> 0]
      [] OTHER -> [ok |-> FALSE, val |-> 0]

WorkingDirectory == "/data/"
\* the one raster file on disk
InputPath == "/data/in.dep"
\* str::contains(&sep), sep being path::MAIN_SEPARATOR ("/"), on the file
\* names the model hands to run
ContainsSep(s) == s \in {"/data/in.dep", "/data/out.dep", "/tmp/out.dep"}

ArgChoices ==
    { <<>>,
      << KeyVal("-i", "in.dep"), KeyVal("-o", "out.dep") >>,
      << Word("-I"), Word("in.dep"), Word("-O"), Word("out.dep"),
         Word("--Clip"), Word("25") >>,
      << KeyVal("--INPUT", "/data/in.dep"), KeyVal("--output", "/tmp/out.dep"),
         KeyVal("-clip", "-10") >>,
      << KeyVal("-i", "in.dep"), KeyVal("-o", "out.dep"), KeyVal("--clip", "0.0") >>,
      << KeyVal("-i", "in.dep"), KeyVal("-o", "out.dep"), Word("--clip"), Word("-10") >>,
      << KeyVal("-i", "in.dep"), KeyVal("-o", "out.dep"), KeyVal("--clip", "abc") >>,
      << KeyVal("-o", "out.dep"), Word("-i") >>,
      << KeyVal("-o", "out.dep") >>,
      << KeyVal("-i", "in.dep") >>,
      << KeyVal("-i", "missing.dep"), KeyVal("-o", "out.dep") >> }

\* the locals of the argument loop; panic is TRUE once an index is out of
\* range (args[i + 1]) or an unwrap meets Err
ParseStart == [input_file |-> "", output_file |-> "", clip_amount |-> 0,
               panic |-> FALSE]

\* line 150: if clip_amount < 0.0 { clip_amount == 0.0; }
\* the body is a comparison whose value is dropped, not an assignment
NegativeClipGuard(c) == c

\* one iteration of the loop of lines 123-152 on args[i] (i counts from 1)
ParseArg(a, i, st) ==
    LET key == ToLowercase(a[i].key)
        hasNext == i + 1 <= Len(a)
        next == IF hasNext THEN Text(a[i + 1]) ELSE ""
        parsed == ParseF64(IF a[i].keyval THEN a[i].val ELSE next)
    IN  IF key = "-i" \/ key = "--input"
        THEN IF a[i].keyval
             THEN [st EXCEPT !.input_file = a[i].val]
             ELSE IF hasNext THEN [st EXCEPT !.input_file = next]
                  ELSE [st EXCEPT !.panic = TRUE]
        ELSE IF key = "-o" \/ key = "--output"
        THEN IF a[i].keyval
             THEN [st EXCEPT !.output_file = a[i].val]
             ELSE IF hasNext THEN [st EXCEPT !.output_file = next]
                  ELSE [st EXCEPT !.panic = TRUE]
        ELSE IF key = "-clip" \/ key = "--clip"
        THEN IF (~a[i].keyval /\ ~hasNext) \/ ~parsed.ok
             THEN [st EXCEPT !.panic = TRUE]
             ELSE [st EXCEPT !.clip_amount = NegativeClipGuard(parsed.val)]
        ELSE st

RECURSIVE ParseFrom(_, _, _)
ParseFrom(a, i, st) ==
    IF i > Len(a) \/ st.panic THEN st
    ELSE ParseFrom(a, i + 1, ParseArg(a, i, st))

\* lines 162-167
ResolvePath(name) ==
    IF ~ContainsSep(name) THEN WorkingDirectory \o name ELSE name

(***************************************************************************)
(* Input rasters.  The rasters on disk are ramps with at most one nodata   *)
(* cell.                                                                   *)
(***************************************************************************)
NoDataValue == -32768

Ramp(i, j) == 10 * (i + 1) * (i + 1) + 7 * j * (i + 1)

Holes(rows, columns) ==
    { {} } \cup { {<<i, j>>} : i \in 0 .. rows - 1, j \in 0 .. columns - 1 }

RampRaster(rows, columns, holes) ==
    MakeRaster(rows, columns, NoDataValue,
        [i \in 0 .. rows - 1 |-> [j \in 0 .. columns - 1 |->
            IF <<i, j>> \in holes THEN NoDataValue ELSE Ramp(i, j)]])

Files ==
    UNION { { RampRaster(rows, columns, h) : h \in Holes(rows, columns) } :
            rows \in 0 .. MaxRows, columns \in 1 .. MaxCols }


(***************************************************************************)
(* Raster::clip_min_and_max_by_percent: the values of the non-nodata cells *)
(* below the low cutoff are raised to it and those above the high cutoff   *)
(* lowered to it; with t the number of cells in a tail of percent percent, *)
(* the cutoffs are the (t+1)-th smallest and the (t+1)-th largest value.   *)
(***************************************************************************)
ClipMinAndMaxByPercent(r, percent) ==
    LET cells == { p \in (0 .. r.rows - 1) \X (0 .. r.columns - 1) :
                     r.data[p[1]][p[2]] # r.nodata }
        n == Cardinality(cells)
        t == (percent * n) \div 100
        at(p) == r.data[p[1]][p[2]]
        below(v) == Cardinality({ p \in cells : at(p) < v })
        above(v) == Cardinality({ p \in cells : at(p) > v })
        same(v) == Cardinality({ p \in cells : at(p) = v })
        vals == { at(p) : p \in cells }
        low == CHOOSE v \in vals : below(v) <= t /\ below(v) + same(v) > t
        high == CHOOSE v \in vals : above(v) <= t /\ above(v) + same(v) > t
    IN  IF n = 0 \/ 2 * t >= n THEN r
        ELSE [r EXCEPT !.data =
                 [i \in 0 .. r.rows - 1 |-> [j \in 0 .. r.columns - 1 |->
                     LET v == r.data[i][j]
                     IN  IF v = r.nodata THEN v
                         ELSE IF v < low THEN low
                         ELSE IF v > high THEN high
                         ELSE v]]]

\* Raster::add_metadata_entry
AddMetadataEntry(r, k, v) ==
    [r EXCEPT !.metadata = Append(r.metadata, [key |-> k, val |-> v])]

(***************************************************************************)
(* The state after construction: run has been called and has done nothing. *)
(***************************************************************************)
Init ==
    /\ args \in ArgChoices
    /\ file \in Files
    /\ num_procs \in 1 .. MaxProcs
    /\ pc = "parse"
    /\ result = "none"
    /\ input_file = ""
    /\ output_file = ""
    /\ clip_amount = 0
    /\ input = NoRaster
    /\ output = NoRaster
    /\ row_block_size = 0
    /\ ending_row = 0
    /\ id = 0
    /\ workers = <<>>
    /\ chan = <<>>
    /\ row = 0
    /\ stdout = <<>>
    /\ written = NoRaster
    /\ col = 0
    /\ data = <<>>

\* lines 115-167: the argument loop and the two paths
ParseArgs ==
    /\ pc = "parse"
    /\ LET st == ParseFrom(args, 1, ParseStart)
       IN  IF Len(args) = 0
           THEN /\ pc' = "returned"
                /\ result' = "Err"
                /\ UNCHANGED <<input_file, output_file, clip_amount>>
           ELSE IF st.panic
           THEN /\ pc' = "panicked"
                /\ UNCHANGED <<result, input_file, output_file, clip_amount>>
           ELSE /\ pc' = "open"
                /\ input_file' = ResolvePath(st.input_file)
                /\ output_file' = ResolvePath(st.output_file)
                /\ clip_amount' = st.clip_amount
                /\ UNCHANGED result
    /\ UNCHANGED <<args, file, num_procs, input, output, row_block_size,
                   ending_row, id, workers, chan, row, stdout, written,
                   col, data>>

\* lines 176-191: Raster::new(&input_file, "r")?, the output raster, the
\* block size and the channel
Open ==
    /\ pc = "open"
    /\ IF input_file = InputPath
       THEN /\ input' = file
            /\ output' = InitializeUsingFile(file)
            /\ row_block_size' = file.rows \div num_procs
            /\ pc' = "dispatch"
            /\ UNCHANGED result
       ELSE /\ pc' = "returned"
            /\ result' = "Err"
            /\ UNCHANGED <<input, output, row_block_size>>
    /\ ending_row' = 0
    /\ id' = 0
    /\ chan' = <<>>
    /\ UNCHANGED <<args, file, num_procs, input_file, output_file,
                   clip_amount, workers, row, stdout, written, col, data>>

\* the dispatch loop without the clamp of lines 196-198
DispatchNoClamp ==
    /\ pc = "dispatch"
    /\ ending_row < input.rows
    /\ id < MaxRows + MaxSpin
    /\ LET starting_row == id * row_block_size
           end == starting_row + row_block_size
       IN  /\ ending_row' = end
           /\ workers' = IF starting_row < end
                         THEN Append(workers, [starting_row |-> starting_row,
                                               ending_row |-> end,
                                               row |-> starting_row,
                                               panicked |-> FALSE])
                         ELSE workers
    /\ id' = id + 1
    /\ UNCHANGED <<args, file, num_procs, pc, result, input_file, output_file,
                   clip_amount, input, output, row_block_size, chan, row,
                   stdout, written, col, data>>

\* lines 192-221: one iteration of the dispatch loop, which spawns a thread
\* on the block [starting_row, ending_row)
Dispatch ==
    /\ pc = "dispatch"
    /\ ending_row < input.rows
    /\ id < MaxRows + MaxSpin
    /\ LET starting_row == id * row_block_size
           e == starting_row + row_block_size
           end == IF e > input.rows THEN input.rows ELSE e
       IN  /\ ending_row' = end
           /\ workers' = IF starting_row < end
                         THEN Append(workers, [starting_row |-> starting_row,
                                               ending_row |-> end,
                                               row |-> starting_row,
                                               panicked |-> FALSE])
                         ELSE workers
    /\ id' = id + 1
    /\ UNCHANGED <<args, file, num_procs, pc, result, input_file, output_file,
                   clip_amount, input, output, row_block_size, chan, row,
                   stdout, written, col, data>>

\* line 192: the loop condition fails
DispatchDone ==
    /\ pc = "dispatch"
    /\ ~(ending_row < input.rows)
    /\ pc' = "collect"
    /\ row' = 0
    /\ UNCHANGED <<args, file, num_procs, result, input_file, output_file,
                   clip_amount, input, output, row_block_size, ending_row, id,
                   workers, chan, stdout, written, col, data>>

\* run has returned or panicked: rx, a local of run, is dropped
ReceiverDropped == pc \in {"returned", "panicked"}

\* a thread that also writes its row into the output raster
WorkerWritesOutput(w) ==
    /\ ~workers[w].panicked
    /\ workers[w].row < workers[w].ending_row
    /\ ~ReceiverDropped
    /\ output' = SetRowData(output, workers[w].row, KernelRow(input, workers[w].row))
    /\ chan' = Append(chan, <<workers[w].row, KernelRow(input, workers[w].row)>>)
    /\ workers' = [workers EXCEPT ![w].row = @ + 1]
    /\ UNCHANGED <<args, file, num_procs, pc, result, input_file, output_file,
                   clip_amount, input, row_block_size, ending_row, id,
                   row, stdout, written, col, data>>

\* lines 203-219: thread w computes its next row and sends it; send returns
\* Err once the receiver is dropped, and unwrap then panics the thread
WorkerSend(w) ==
    /\ ~workers[w].panicked
    /\ workers[w].row < workers[w].ending_row
    /\ IF ReceiverDropped
       THEN /\ workers' = [workers EXCEPT ![w].panicked = TRUE]
            /\ UNCHANGED chan
       ELSE /\ chan' = Append(chan, <<workers[w].row,
                                      KernelRow(input, workers[w].row)>>)
            /\ workers' = [workers EXCEPT ![w].row = @ + 1]
    /\ UNCHANGED <<args, file, num_procs, pc, result, input_file, output_file,
                   clip_amount, input, output, row_block_size, ending_row, id,
                   row, stdout, written, col, data>>

\* the collector writing the rows in the order they arrive
CollectInArrivalOrder ==
    /\ pc = "collect"
    /\ row < input.rows
    /\ chan # <<>>
    /\ output' = SetRowData(output, row, Head(chan)[2])
    /\ chan' = Tail(chan)
    /\ row' = row + 1
    /\ UNCHANGED <<args, file, num_procs, pc, result, input_file, output_file,
                   clip_amount, input, row_block_size, ending_row, id,
                   workers, stdout, written, col, data>>

\* lines 223-225: rx.recv() and set_row_data
Collect ==
    /\ pc = "collect"
    /\ row < input.rows
    /\ chan # <<>>
    /\ output' = SetRowData(output, Head(chan)[1], Head(chan)[2])
    /\ chan' = Tail(chan)
    /\ row' = row + 1
    /\ UNCHANGED <<args, file, num_procs, pc, result, input_file, output_file,
                   clip_amount, input, row_block_size, ending_row, id,
                   workers, stdout, written, col, data>>

\* the collector loop one iteration short
CollectDoneOneShort ==
    /\ pc = "collect"
    /\ ~(row < input.rows - 1)
    /\ pc' = "clip"
    /\ UNCHANGED <<args, file, num_procs, result, input_file, output_file,
                   clip_amount, input, output, row_block_size, ending_row, id,
                   workers, chan, row, stdout, written, col, data>>

\* the collector loop left as soon as the channel is empty
CollectDoneWhenChannelEmpty ==
    /\ pc = "collect"
    /\ chan = <<>>
    /\ pc' = "clip"
    /\ UNCHANGED <<args, file, num_procs, result, input_file, output_file,
                   clip_amount, input, output, row_block_size, ending_row, id,
                   workers, chan, row, stdout, written, col, data>>

\* line 223: the collector loop ends
CollectDone ==
    /\ pc = "collect"
    /\ ~(row < input.rows)
    /\ pc' = "clip"
    /\ UNCHANGED <<args, file, num_procs, result, input_file, output_file,
                   clip_amount, input, output, row_block_size, ending_row, id,
                   workers, chan, row, stdout, written, col, data>>

\* the clip stage entered for every clip amount that is not negative
ClipOutputWhenNotNegative ==
    /\ pc = "clip"
    /\ clip_amount >= 0
    /\ stdout' = Append(stdout, "Clipping output...")
    /\ output' = ClipMinAndMaxByPercent(output, clip_amount)
    /\ pc' = "metadata"
    /\ UNCHANGED <<args, file, num_procs, result, input_file, output_file,
                   clip_amount, input, row_block_size, ending_row, id,
                   workers, chan, row, written, col, data>>

\* lines 235-238, the condition holds
ClipOutput ==
    /\ pc = "clip"
    /\ clip_amount > 0
    /\ stdout' = Append(stdout, "Clipping output...")
    /\ output' = ClipMinAndMaxByPercent(output, clip_amount)
    /\ pc' = "metadata"
    /\ UNCHANGED <<args, file, num_procs, result, input_file, output_file,
                   clip_amount, input, row_block_size, ending_row, id,
                   workers, chan, row, written, col, data>>

\* line 235, the condition fails
SkipClip ==
    /\ pc = "clip"
    /\ ~(clip_amount > 0)
    /\ pc' = "metadata"
    /\ UNCHANGED <<args, file, num_procs, result, input_file, output_file,
                   clip_amount, input, output, row_block_size, ending_row, id,
                   workers, chan, row, stdout, written, col, data>>

\* lines 178 and 239-240: end - start in whole seconds, negative when the
\* clock is set back between the two readings
ElapsedTimes == -MaxElapsed .. MaxElapsed

\* lines 239-246
Metadata ==
    /\ pc = "metadata"
    /\ \E elapsed_time \in ElapsedTimes :
          output' = AddMetadataEntry(
                        AddMetadataEntry(
                            AddMetadataEntry(
                                AddMetadataEntry([output EXCEPT !.palette = "grey.plt"],
                                    "Created by", "RobertsCrossFilter"),
                                "Input file", input_file),
                            "Clip amount", clip_amount),
                        "Elapsed Time (excluding I/O)", elapsed_time)
    /\ pc' = "write"
    /\ UNCHANGED <<args, file, num_procs, result, input_file, output_file,
                   clip_amount, input, row_block_size, ending_row, id,
                   workers, chan, row, stdout, written, col, data>>

\* the write tried again after it failed
WriteRetrying ==
    /\ pc = "write"
    /\ \E ok \in BOOLEAN :
          IF ok
          THEN /\ written' = output
               /\ result' = "Ok"
               /\ pc' = "returned"
          ELSE /\ result' = "Err"
               /\ pc' = "write"
               /\ UNCHANGED written
    /\ UNCHANGED <<args, file, num_procs, input_file, output_file,
                   clip_amount, input, output, row_block_size, ending_row, id,
                   workers, chan, row, stdout, col, data>>

\* lines 251-265: output.write() succeeds or fails
Write ==
    /\ pc = "write"
    /\ \E ok \in BOOLEAN :
          IF ok
          THEN /\ written' = output
               /\ result' = "Ok"
          ELSE /\ result' = "Err"
               /\ UNCHANGED written
    /\ pc' = "returned"
    /\ UNCHANGED <<args, file, num_procs, input_file, output_file,
                   clip_amount, input, output, row_block_size, ending_row, id,
                   workers, chan, row, stdout, col, data>>

Next ==
    \/ ParseArgs
    \/ Open
    \/ Dispatch
    \/ DispatchDone
    \/ \E w \in 1 .. MaxRows : w \in DOMAIN workers /\ WorkerSend(w)
    \/ Collect
    \/ CollectDone
    \/ ClipOutput
    \/ SkipClip
    \/ Metadata
    \/ Write

Spec == Init /\ [][Next]_vars

(***************************************************************************)
(* Scheduling: the main thread runs on, and every spawned thread runs on   *)
(* (OS threads).                                                           *)
(***************************************************************************)
Main ==
    \/ ParseArgs
    \/ Open
    \/ Dispatch
    \/ DispatchDone
    \/ Collect
    \/ CollectDone
    \/ ClipOutput
    \/ SkipClip
    \/ Metadata
    \/ Write

FairSpec ==
    /\ Init
    /\ [][Next]_vars
    /\ WF_vars(Main)
    /\ \A w \in 1 .. MaxRows : WF_vars(w \in DOMAIN workers /\ WorkerSend(w))

(***************************************************************************)
(* The worker closure alone, stepped cell by cell: one thread on the block *)
(* [0, rows) of a small raster whose cells take every combination of       *)
(* nodata and the sample values.                                           *)
(***************************************************************************)
KernelExtent == 1 .. 2
KernelNoData == {NoDataValue, 0}
SampleValues == {10, 20, 30, 40}

KernelFiles ==
    UNION { { MakeRaster(rows, columns, nodata, cells) :
                cells \in [0 .. rows - 1 -> [0 .. columns - 1 ->
                              {nodata} \cup SampleValues]] } :
            rows \in KernelExtent, columns \in KernelExtent,
            nodata \in KernelNoData }

KernelInit ==
    /\ input \in KernelFiles
    /\ file = input
    /\ args = <<>>
    /\ num_procs = 1
    /\ pc = "kernel"
    /\ result = "none"
    /\ input_file = InputPath
    /\ output_file = ""
    /\ clip_amount = 0
    /\ output = NoRaster
    /\ row_block_size = input.rows
    /\ ending_row = input.rows
    /\ id = 1
    /\ workers = << [starting_row |-> 0, ending_row |-> input.rows, row |-> 0,
                     panicked |-> FALSE] >>
    /\ chan = <<>>
    /\ row = 0
    /\ stdout = <<>>
    /\ written = NoRaster
    /\ col = 0
    /\ data = FreshRow(input)

\* lines 205-217: one iteration of the column loop
KernelCell ==
    /\ pc = "kernel"
    /\ workers[1].row < workers[1].ending_row
    /\ col < input.columns
    /\ data' = [data EXCEPT ![col] = CellValue(input, workers[1].row, col, data[col])]
    /\ col' = col + 1
    /\ UNCHANGED <<args, file, num_procs, pc, result, input_file, output_file,
                   clip_amount, input, output, row_block_size, ending_row, id,
                   workers, chan, row, stdout, written>>

\* lines 218 and 203-204: the row is sent and the next row begins
KernelSend ==
    /\ pc = "kernel"
    /\ workers[1].row < workers[1].ending_row
    /\ ~(col < input.columns)
    /\ chan' = Append(chan, <<workers[1].row, data>>)
    /\ workers' = [workers EXCEPT ![1].row = @ + 1]
    /\ col' = 0
    /\ data' = FreshRow(input)
    /\ UNCHANGED <<args, file, num_procs, pc, result, input_file, output_file,
                   clip_amount, input, output, row_block_size, ending_row, id,
                   row, stdout, written>>

KernelNext ==
    \/ KernelCell
    \/ KernelSend

KernelSpec == KernelInit /\ [][KernelNext]_vars

(***************************************************************************)
(* What the properties speak of.                                           *)
(***************************************************************************)
Rows == 0 .. input.rows - 1
Columns == 0 .. input.columns - 1

\* the rows of the block thread w was spawned on
BlockRows(w) == workers[w].starting_row .. workers[w].ending_row - 1

\* the messages sent so far, as (thread, row) pairs
Sent == UNION { { <<w, k>> : k \in workers[w].starting_row .. workers[w].row - 1 } :
                w \in DOMAIN workers }

\* run is past the dispatch loop, past the collector loop
DispatchLeft == pc \in {"collect", "clip", "metadata", "write"}
                    \/ (pc = "returned" /\ output.valid)
CollectorLeft == pc \in {"clip", "metadata", "write"}
                    \/ (pc = "returned" /\ output.valid)
ClipPassed == pc \in {"metadata", "write"} \/ (pc = "returned" /\ output.valid)

InGrid(i, j) == i \in Rows /\ j \in Columns
ReadsNoData(i, j) == ~InGrid(i, j) \/ input.data[i][j] = input.nodata
\* the neighbour (i, j) of a cell whose center is z1, after substitution
Neighbour(i, j, z1) == IF ReadsNoData(i, j) THEN z1 ELSE input.data[i][j]

\* the Roberts cross value of cell (i, j) of the input
RobertsCross(i, j) ==
    LET z1 == input.data[i][j]
    IN  IF z1 = input.nodata THEN input.nodata
        ELSE Abs(z1 - Neighbour(i + 1, j + 1, z1))
               + Abs(Neighbour(i, j + 1, z1) - Neighbour(i + 1, j, z1))

Expected == [i \in Rows |-> [j \in Columns |-> RobertsCross(i, j)]]

\* KernelSpec: the cells computed so far, as (row, column, value)
KernelComputed ==
    UNION { { <<chan[k][1], j, chan[k][2][j]>> : j \in Columns } : k \in DOMAIN chan }
    \cup (IF workers[1].row \in Rows
          THEN { <<workers[1].row, j, data[j]>> : j \in 0 .. col - 1 }
          ELSE {})

ClipRan == \E k \in DOMAIN stdout : stdout[k] = "Clipping output..."

\* the arguments give --clip a negative value
NegativeClipGiven ==
    \E k \in DOMAIN args :
        /\ ToLowercase(args[k].key) \in {"-clip", "--clip"}
        /\ \/ args[k].keyval /\ args[k].val = "-10"
           \/ ~args[k].keyval /\ k + 1 \in DOMAIN args /\ Text(args[k + 1]) = "-10"

(***************************************************************************)
(* C1.  Coverage: the blocks the dispatch loop produces are pairwise       *)
(* disjoint, lie in [0, rows), and together are exactly [0, rows): no      *)
(* block ever overlaps another or leaves the grid, and the loop comes to   *)
(* an end with every row in a block.                                       *)
(***************************************************************************)
C1_Coverage ==
    /\ [](\A w \in DOMAIN workers :
            /\ BlockRows(w) \subseteq Rows
            /\ \A v \in DOMAIN workers : v # w => BlockRows(v) \cap BlockRows(w) = {})
    /\ (pc = "dispatch") ~>
          (DispatchLeft /\ UNION { BlockRows(w) : w \in DOMAIN workers } = Rows)

(***************************************************************************)
(* C2.  Total message count: the workers send exactly rows messages and    *)
(* the collector consumes exactly rows messages before it returns; it      *)
(* never waits for a message no worker will send and leaves none behind.   *)
(***************************************************************************)
C2_TotalMessageCount ==
    /\ [](CollectorLeft =>
            row = input.rows /\ Cardinality(Sent) = input.rows /\ chan = <<>>)
    /\ [](pc = "collect" /\ row < input.rows /\ chan = <<>> =>
            \E w \in DOMAIN workers : workers[w].row < workers[w].ending_row)
    /\ (pc = "dispatch") ~>
          (CollectorLeft /\ Cardinality(Sent) = input.rows /\ row = input.rows)

(***************************************************************************)
(* C3.  Termination: once the input raster is opened, and with the threads *)
(* scheduled fairly, run leaves the dispatch loop, the collector receives  *)
(* its messages and the pipeline passes the clip stage.                    *)
(***************************************************************************)
C3_Termination == (pc = "dispatch") ~> ClipPassed

(***************************************************************************)
(* C4.  Idempotence of partitioning: while the collector runs, every row   *)
(* of the output is either still unwritten or the Roberts cross row of the *)
(* same input row; when the collector has finished, the output is the      *)
(* Roberts cross of the input, whatever num_procs is and in whatever order *)
(* the messages arrived.                                                   *)
(***************************************************************************)
C4_Idempotence ==
    /\ pc = "collect" =>
          \A i \in Rows : output.data[i] = Expected[i]
                            \/ output.data[i] = FreshRow(input)
    /\ pc = "clip" => output.data = Expected

\* a later row has arrived, and is written, before an earlier one
C4_Witness ==
    /\ pc = "collect"
    /\ num_procs >= 2
    /\ \E i \in Rows, k \in Rows :
          /\ i < k
          /\ output.data[k] = Expected[k]
          /\ output.data[k] # FreshRow(input)
          /\ output.data[i] = FreshRow(input)
          /\ output.data[i] # Expected[i]

(***************************************************************************)
(* C5.  Nodata propagation: a cell whose input center is nodata has output *)
(* nodata, whatever its three neighbours hold.                             *)
(***************************************************************************)
C5_NodataPropagation ==
    \A c \in KernelComputed :
        input.data[c[1]][c[2]] = input.nodata => c[3] = input.nodata

\* a nodata center with three neighbours in the grid that hold data
C5_Witness ==
    \E c \in KernelComputed :
        /\ input.data[c[1]][c[2]] = input.nodata
        /\ ~ReadsNoData(c[1], c[2] + 1)
        /\ ~ReadsNoData(c[1] + 1, c[2])
        /\ ~ReadsNoData(c[1] + 1, c[2] + 1)
        /\ c[3] = input.nodata

(***************************************************************************)
(* C6.  Boundary substitution: for a cell whose center z1 is not nodata,   *)
(* the output is |z1 - z4| + |z2 - z3| with exactly those of z2, z3, z4    *)
(* that read as nodata (a nodata cell of the grid, or a read outside it)   *)
(* replaced by z1.                                                         *)
(***************************************************************************)
C6_BoundarySubstitution ==
    \A c \in KernelComputed :
        LET z1 == input.data[c[1]][c[2]]
        IN  z1 # input.nodata =>
              c[3] = Abs(z1 - Neighbour(c[1] + 1, c[2] + 1, z1))
                       + Abs(Neighbour(c[1], c[2] + 1, z1)
                               - Neighbour(c[1] + 1, c[2], z1))

\* one cell with a nodata neighbour inside the grid, and one in the last
\* column whose neighbour below holds other data
C6_Witness ==
    /\ \E c \in KernelComputed :
          /\ input.data[c[1]][c[2]] # input.nodata
          /\ InGrid(c[1] + 1, c[2])
          /\ input.data[c[1] + 1][c[2]] = input.nodata
          /\ ~ReadsNoData(c[1] + 1, c[2] + 1)
    /\ \E c \in KernelComputed :
          /\ input.data[c[1]][c[2]] # input.nodata
          /\ c[2] + 1 = input.columns
          /\ ~ReadsNoData(c[1] + 1, c[2])
          /\ c[3] = Abs(input.data[c[1]][c[2]] - input.data[c[1] + 1][c[2]])
          /\ c[3] > 0

(***************************************************************************)
(* C7.  Known-kernel correctness: when the center and its three neighbours *)
(* are all in the grid and none is nodata, the output is                   *)
(* |z1 - z4| + |z2 - z3|; for 10, 20, 30, 40 it is 40.                     *)
(***************************************************************************)
C7_KnownKernel ==
    \A c \in KernelComputed :
        LET i == c[1]
            j == c[2]
        IN  (InGrid(i + 1, j + 1)
               /\ ~ReadsNoData(i, j) /\ ~ReadsNoData(i, j + 1)
               /\ ~ReadsNoData(i + 1, j) /\ ~ReadsNoData(i + 1, j + 1))
            => /\ c[3] = Abs(input.data[i][j] - input.data[i + 1][j + 1])
                           + Abs(input.data[i][j + 1] - input.data[i + 1][j])
               /\ (input.data[i][j] = 10 /\ input.data[i][j + 1] = 20
                     /\ input.data[i + 1][j] = 30 /\ input.data[i + 1][j + 1] = 40)
                  => c[3] = 40

C7_Witness ==
    \E c \in KernelComputed :
        /\ InGrid(c[1] + 1, c[2] + 1)
        /\ input.nodata \notin {10, 20, 30, 40}
        /\ input.data[c[1]][c[2]] = 10
        /\ input.data[c[1]][c[2] + 1] = 20
        /\ input.data[c[1] + 1][c[2]] = 30
        /\ input.data[c[1] + 1][c[2] + 1] = 40
        /\ c[3] = 40

(***************************************************************************)
(* C8.  Block count: for rows > 0 the dispatch loop spawns num_procs       *)
(* threads, or num_procs + 1, and never more than num_procs + 1 (id counts *)
(* the threads spawned so far).                                            *)
(***************************************************************************)
C8_BlockCount ==
    /\ (pc = "dispatch" /\ input.rows > 0) => id <= num_procs + 1
    /\ (pc = "collect" /\ input.rows > 0) => id \in {num_procs, num_procs + 1}

(***************************************************************************)
(* C9.  Clip activation: the clip stage runs exactly when clip_amount is   *)
(* greater than 0; with clip_amount 0 the output that reaches the writer   *)
(* is the grid the collector produced.                                     *)
(***************************************************************************)
C9_ClipActivation ==
    /\ ~ClipPassed => ~ClipRan
    /\ ClipPassed =>
          /\ ClipRan <=> clip_amount > 0
          /\ clip_amount = 0 => output.data = Expected
          /\ (clip_amount = 0 /\ result = "Ok") => written.data = Expected

\* a run without --clip has written a grid that holds data
C9_Witness ==
    /\ pc = "returned"
    /\ result = "Ok"
    /\ clip_amount = 0
    /\ ~ClipRan
    /\ \E i \in Rows, j \in Columns :
          written.data[i][j] # input.nodata /\ written.data[i][j] > 0

(***************************************************************************)
(* C10.  Negative clip guard: when --clip is given a negative value, the   *)
(* clip amount is 0 after the arguments are parsed, the clip stage does    *)
(* not run, and the clip amount recorded in the metadata is 0.             *)
(***************************************************************************)
C10_NegativeClipGuard ==
    (NegativeClipGiven /\ pc \notin {"parse", "panicked"}) =>
        /\ clip_amount = 0
        /\ ~ClipRan
        /\ \A k \in DOMAIN output.metadata :
              output.metadata[k].key = "Clip amount" => output.metadata[k].val = 0

(***************************************************************************)
(* C11.  I/O errors are returned: when opening the input raster fails, run *)
(* returns Err with no thread spawned, no message sent and nothing         *)
(* written; when the write fails, run returns Err; run returns Ok only     *)
(* with the output written; once a result is there, run has returned and   *)
(* its thread takes no further step (nothing is tried again).              *)
(***************************************************************************)
C11_IoErrors ==
    /\ (pc = "returned" /\ ~input.valid) =>
          /\ result = "Err"
          /\ id = 0 /\ workers = <<>> /\ chan = <<>>
          /\ ~written.valid
    /\ (pc = "returned" /\ input.valid) =>
          /\ result \in {"Ok", "Err"}
          /\ result = "Err" <=> ~written.valid
    /\ result = "Ok" => written.valid /\ written = output
    /\ result # "none" => pc = "returned" /\ ~ENABLED Main

\* Raster::new has failed on a path that is not the raster's
C11_Witness ==
    /\ pc = "returned"
    /\ result = "Err"
    /\ Len(args) > 0
    /\ input_file # InputPath
    /\ ~input.valid

(***************************************************************************)
(* C12.  Configuration errors: with no arguments, without the input or the *)
(* output path, with a flag that has no value after it, or with a --clip   *)
(* value that is no number, run returns Err without panicking, and no      *)
(* raster has been opened, no thread spawned and nothing written.          *)
(***************************************************************************)
InputFlags == {"-i", "--input"}
OutputFlags == {"-o", "--output"}
ClipFlags == {"-clip", "--clip"}

HasFlag(names) == \E k \in DOMAIN args : ToLowercase(args[k].key) \in names

\* the last argument is a flag without "=": no value follows it
FlagWithoutValue ==
    /\ Len(args) > 0
    /\ ToLowercase(args[Len(args)].key) \in InputFlags \cup OutputFlags \cup ClipFlags
    /\ ~args[Len(args)].keyval

ClipNotANumber ==
    \E k \in DOMAIN args :
        /\ ToLowercase(args[k].key) \in ClipFlags
        /\ \/ args[k].keyval /\ ~ParseF64(args[k].val).ok
           \/ ~args[k].keyval /\ k + 1 \in DOMAIN args
                /\ ~ParseF64(Text(args[k + 1])).ok

BadConfiguration ==
    \/ Len(args) = 0
    \/ ~HasFlag(InputFlags)
    \/ ~HasFlag(OutputFlags)
    \/ FlagWithoutValue
    \/ ClipNotANumber

C12_ConfigurationErrors ==
    BadConfiguration =>
        \/ pc \in {"parse", "open"} /\ result = "none" /\ ~input.valid
        \/ /\ pc = "returned"
           /\ result = "Err"
           /\ ~input.valid
           /\ id = 0 /\ workers = <<>>
           /\ ~written.valid

(***************************************************************************)
(* C13.  Block shape: the blocks come in increasing row order, block k     *)
(* (counted from 0) starts at k * floor(rows / num_procs) where block      *)
(* k - 1 ends, every block but the last has floor(rows / num_procs) rows,  *)
(* no block ends beyond rows, and the last block ends at rows.             *)
(***************************************************************************)
C13_BlockShape ==
    LET size == input.rows \div num_procs
    IN  /\ \A w \in DOMAIN workers :
              /\ workers[w].starting_row = (w - 1) * size
              /\ w > 1 => workers[w].starting_row = workers[w - 1].ending_row
              /\ w < Len(workers) =>
                    workers[w].ending_row - workers[w].starting_row = size
              /\ workers[w].ending_row <= input.rows
        /\ pc = "dispatch" => ending_row <= input.rows
        /\ (DispatchLeft /\ workers # <<>>) =>
              workers[Len(workers)].ending_row = input.rows

\* the last of three blocks is shorter than the others: its end was clamped
C13_Witness ==
    /\ DispatchLeft
    /\ Len(workers) = 3
    /\ workers[3].ending_row = input.rows
    /\ workers[3].ending_row - workers[3].starting_row < input.rows \div num_procs

(***************************************************************************)
(* C14.  One result per row: every message carries columns values, no row  *)
(* is sent by two threads or lies twice in the channel, the collector has  *)
(* called set_row_data once per message received, and every row of         *)
(* [0, rows) is sent.                                                      *)
(***************************************************************************)
C14_OneResultPerRow ==
    /\ [](\A k \in DOMAIN chan : DOMAIN chan[k][2] = Columns /\ chan[k][1] \in Rows)
    /\ [](\A k \in DOMAIN chan, m \in DOMAIN chan :
             k # m => chan[k][1] # chan[m][1])
    /\ [](\A p \in Sent, q \in Sent : p[2] = q[2] => p[1] = q[1])
    /\ [](pc \in {"dispatch", "collect"} => row = Cardinality(Sent) - Len(chan))
    /\ (pc = "dispatch") ~> (\A r \in Rows : \E p \in Sent : p[2] = r)

(***************************************************************************)
(* C15.  Barrier ordering: the clip stage, the metadata and the write      *)
(* start only when the collector has consumed rows messages: by then every *)
(* row has been sent, received and written into the output.                *)
(***************************************************************************)
C15_BarrierOrdering ==
    (CollectorLeft \/ ClipRan \/ output.metadata # <<>>
        \/ output.palette = "grey.plt" \/ written.valid)
    => /\ row = input.rows
       /\ chan = <<>>
       /\ \A r \in Rows : \E p \in Sent : p[2] = r

\* the clip stage is about to start on a raster collected from two threads
C15_Witness ==
    /\ pc = "clip"
    /\ Len(workers) >= 2
    /\ row = input.rows
    /\ output.data = Expected
    /\ output.data # InitializeUsingFile(input).data

(***************************************************************************)
(* C16.  Single writer and read-only input: no step changes the input      *)
(* raster once it is opened; a step of a spawned thread changes the        *)
(* thread and the channel and nothing else; the output grid is set up when *)
(* the input is opened and changed after that only by the collector, one   *)
(* row for the message it receives, and by the clip stage after the        *)
(* collector has finished.                                                 *)
(***************************************************************************)
C16_SingleWriter ==
    [][ /\ input.valid => input' = input
        /\ (workers' # workers /\ id' = id) =>
              UNCHANGED <<args, file, num_procs, pc, result, input_file,
                          output_file, clip_amount, input, output,
                          row_block_size, ending_row, id, row, stdout, written>>
        /\ output'.data # output.data =>
              \/ pc = "open"
              \/ /\ pc = "collect"
                 /\ chan # <<>>
                 /\ chan' = Tail(chan)
                 /\ \A r \in Rows : r # Head(chan)[1] => output'.data[r] = output.data[r]
              \/ /\ pc = "clip"
                 /\ clip_amount > 0
                 /\ row = input.rows
      ]_vars

\* the collector has written a row while a thread still has rows to send
C16_Witness ==
    /\ pc = "collect"
    /\ row > 0
    /\ output.data # InitializeUsingFile(input).data
    /\ \E w \in DOMAIN workers : workers[w].row < workers[w].ending_row

(***************************************************************************)
(* C17.  No send after close, nothing left behind: when run has left the   *)
(* collector loop, and so when the receiver is dropped, every spawned      *)
(* thread has sent all its rows and the channel is empty; no thread has    *)
(* met a closed channel; a thread with a row to send can always send it.   *)
(***************************************************************************)
C17_NoSendAfterClose ==
    /\ (CollectorLeft \/ ReceiverDropped) =>
          /\ \A w \in DOMAIN workers : workers[w].row = workers[w].ending_row
          /\ chan = <<>>
    /\ \A w \in DOMAIN workers :
          /\ ~workers[w].panicked
          /\ workers[w].row < workers[w].ending_row => ENABLED WorkerSend(w)

\* run has returned after a collection from several threads
C17_Witness ==
    /\ pc = "returned"
    /\ ReceiverDropped
    /\ Len(workers) >= 2
    /\ \A w \in DOMAIN workers : workers[w].row = workers[w].ending_row
    /\ written.valid

(***************************************************************************)
(* C18.  Output sign and nodata mask: a computed cell whose input center   *)
(* is not nodata holds a value >= 0; when the nodata value is negative, a  *)
(* computed cell holds nodata exactly when its input center is nodata.     *)
(***************************************************************************)
C18_SignAndNodataMask ==
    \A c \in KernelComputed :
        /\ input.data[c[1]][c[2]] # input.nodata => c[3] >= 0
        /\ input.nodata < 0 =>
              (c[3] = input.nodata <=> input.data[c[1]][c[2]] = input.nodata)

\* a negative nodata value; a nodata cell, a flat cell and a sloping cell
\* have been computed
C18_Witness ==
    /\ input.nodata < 0
    /\ \E c \in KernelComputed :
          input.data[c[1]][c[2]] = input.nodata /\ c[3] = input.nodata
    /\ \E c \in KernelComputed :
          input.data[c[1]][c[2]] # input.nodata /\ c[3] = 0
    /\ \E c \in KernelComputed :
          input.data[c[1]][c[2]] # input.nodata /\ c[3] > 0

(***************************************************************************)
(* C19.  Isolated cell is flat: a computed cell whose center is not nodata *)
(* and whose neighbours (r, c+1), (r+1, c), (r+1, c+1) all read as nodata  *)
(* holds 0; so does the bottom-right cell of the grid, and the cell of a   *)
(* 1x1 grid, when it is not nodata.                                        *)
(***************************************************************************)
C19_IsolatedCellIsFlat ==
    \A c \in KernelComputed :
        input.data[c[1]][c[2]] # input.nodata =>
            /\ (ReadsNoData(c[1], c[2] + 1) /\ ReadsNoData(c[1] + 1, c[2])
                  /\ ReadsNoData(c[1] + 1, c[2] + 1)) => c[3] = 0
            /\ (c[1] = input.rows - 1 /\ c[2] = input.columns - 1) => c[3] = 0

\* an isolated cell with a nodata neighbour inside the grid and the others
\* outside it, and nodata not 0
C19_Witness ==
    \E c \in KernelComputed :
        /\ input.data[c[1]][c[2]] # input.nodata
        /\ input.nodata # 0
        /\ InGrid(c[1], c[2] + 1)
        /\ input.data[c[1]][c[2] + 1] = input.nodata
        /\ ~InGrid(c[1] + 1, c[2])
        /\ ~InGrid(c[1] + 1, c[2] + 1)
        /\ c[3] = 0

=============================================================================
